---- MODULE Spec2Model ----
(***************************************************************************)
(* Concurrent audio-triage pipeline of the jabracadabra scripts.           *)
(*                                                                         *)
(* wake_transcription_demo.py: a capture thread (speech_recognition's      *)
(* background listener calling audio_callback), the wake-word worker, the  *)
(* transcription worker and the main thread, sharing the unguarded fields  *)
(* is_running, is_awake and last_detection and two unbounded Queues.       *)
(* Every action is one step of one thread that touches the shared state    *)
(* at most once; thread-local work around it is folded into the step.      *)
(*                                                                         *)
(* ollama_voice_assistant.py: the capture callback and the single          *)
(* process_audio loop run by the main thread.                              *)
(*                                                                         *)
(* openwakeword_detector.py: the capture callback and the detection loop   *)
(* of start(), run by the main thread; it shares the names of the          *)
(* wake-word worker's locals, which the model reuses.                      *)
(*                                                                         *)
(* basic_audio_recorder.py and whisper_transcriber.py: the capture         *)
(* callback and the loop of AudioRecorder.record, which is the same code   *)
(* in both files.                                                          *)
(*                                                                         *)
(* Time is counted in whole seconds, scores in tenths, audio in bytes.     *)
(***************************************************************************)
EXTENDS Integers, Sequences, FiniteSets, TLC

VARIABLES
    script,               \* which script's __main__ is running
    cooldown,             \* self.cooldown (constructor argument)
    num_models,           \* number of items of a prediction (models loaded)
    is_running,           \* self.is_running
    is_awake,             \* self.is_awake
    last_detection,       \* self.last_detection
    wake_queue,           \* self.wake_queue
    transcription_queue,  \* self.transcription_queue
    main_pc,              \* position of the main thread
    listening,            \* the background listener has not been told to stop
    cap_pc,               \* position of the capture thread
    captured,             \* number of segments the listener has delivered
    w_pc,                 \* position of the wake-word worker
    w_seg,                \* audio_data of the wake-word worker
    w_len,                \* len(audio_np)
    w_i,                  \* i, the offset of the current chunk
    w_m,                  \* position in prediction.items()
    score,                \* score of the wake-word worker
    current_time,         \* current_time of the wake-word worker
    chunk,                \* chunk, the frame handed to predict
    t_pc,                 \* position of the transcription worker
    t_seg,                \* audio_data of the transcription worker
    text,                 \* text of the transcription worker
    wake_deq,             \* history: segments got from wake_queue
    trans_deq,            \* history: segments got from transcription_queue
    last_accept,          \* history: time of the latest accepted trigger, or -1
    seg_triggers,         \* history: triggers accepted in the segment w_seg
    frames_fed,           \* history: predict calls made for the segment w_seg
    frame_triggers,       \* history: triggers accepted in the current chunk
    awake_seg,            \* history: segment whose trigger last set is_awake
    pending,              \* history: is_awake was set, no command has read it
    audio_queue,          \* self.audio_queue of the two single-queue scripts
    is_processing,        \* ollama_voice_assistant: self.is_processing
    p_pc,                 \* ollama_voice_assistant: position of process_audio
    p_seg,                \* ollama_voice_assistant: audio_data of process_audio
    duration_seconds,     \* AudioRecorder.record: duration_seconds
    r_pc,                 \* AudioRecorder.record: position of the loop
    all_audio,            \* AudioRecorder.record: len(all_audio)
    elapsed               \* AudioRecorder.record: elapsed

vars == <<script, cooldown, num_models, is_running, is_awake, last_detection,
          wake_queue, transcription_queue, main_pc, listening, cap_pc,
          captured, w_pc, w_seg, w_len, w_i, w_m, score, current_time, chunk,
          t_pc, t_seg, text, wake_deq, trans_deq, last_accept, seg_triggers,
          frames_fed, frame_triggers, awake_seg, pending,
          audio_queue, is_processing,
          p_pc, p_seg, duration_seconds, r_pc, all_audio, elapsed>>

config == <<script, cooldown, num_models, duration_seconds>>
recv == <<r_pc, all_audio, elapsed>>
shared == <<is_running, is_awake, last_detection>>
queues == <<wake_queue, transcription_queue>>
mainv == <<main_pc, listening>>
capv == <<cap_pc, captured>>
wakev == <<w_pc, w_seg, w_len, w_i, w_m, score, current_time, chunk>>
transv == <<t_pc, t_seg, text>>
wakeh == <<wake_deq, last_accept, seg_triggers, frames_fed, frame_triggers,
          awake_seg>>
transh == <<trans_deq>>
ollamav == <<audio_queue, is_processing, p_pc, p_seg>>
demov == <<last_detection, queues, wakev, t_pc, t_seg, wakeh, transh, pending>>

(***************************************************************************)
(* Bounds of the model.                                                    *)
(***************************************************************************)
MaxSegs == 2
MaxTime == 2
MaxModels == 2
MaxDuration == 2
MaxPhrases == 3

(***************************************************************************)
(* Program constants and input domains.                                    *)
(***************************************************************************)
NumModels == 1
wake_threshold == 5
DefaultCooldown == 2
chunk_size == 1280
QueueMaxsize == 0
sample_rate == 16000
RecordTimeout == 3

CooldownValues == 1..DefaultCooldown
Scores == {4, 5}
SegLens == {0, 1280, 2000}
Texts == {<<>>, <<" ">>, <<"a">>}
WakePhrases == {"w"}
OllamaTexts == Texts \cup {<<"w">>}
Whitespace == {" "}
RecordDurations == 1..MaxDuration
PhraseBytes == {sample_rate, sample_rate * 2}
ElapsedReadings == 0..(MaxDuration + RecordTimeout + 1)

(***************************************************************************)
(* Pure helpers.                                                           *)
(***************************************************************************)
\* mutant of Full: a queue bounded at one item
FullAtOne(q) == Len(q) >= 1

\* Queue(): maxsize 0, so put blocks only when maxsize > 0 and the queue holds
\* maxsize items
Full(q) == QueueMaxsize > 0 /\ Len(q) >= QueueMaxsize

\* mutant of Put: the segment goes to the head of the queue
PutFront(q, x) == <<x>> \o q

\* Queue.put(audio_data): first in, first out
Put(q, x) == Append(q, x)

\* mutant of Strip: the text is tested as it is
StripNothing(s) == s

\* str.strip(): drop leading and trailing whitespace
RECURSIVE LStrip(_)
LStrip(s) == IF s # <<>> /\ Head(s) \in Whitespace THEN LStrip(Tail(s)) ELSE s

RECURSIVE RStrip(_)
RStrip(s) ==
    IF s # <<>> /\ s[Len(s)] \in Whitespace
    THEN RStrip(SubSeq(s, 1, Len(s) - 1)) ELSE s

Strip(s) == RStrip(LStrip(s))

\* the offsets range(0, len(audio_np), chunk_size) visits
ChunkOffsets(n) == {i \in 0..n : i < n /\ i % chunk_size = 0}

\* audio_np[i:i + self.chunk_size]: the samples lo..hi-1, clipped to the array
Min(a, b) == IF a < b THEN a ELSE b

Slice(n, i) == [lo |-> Min(i, n), hi |-> Min(i + chunk_size, n), zeros |-> 0]

\* len(chunk)
FrameLen(c) == c.hi - c.lo + c.zeros

\* mutant of Pad: the short chunk is handed on as it is
NoPad(c) == c

\* if len(chunk) < self.chunk_size: np.pad(chunk, (0, chunk_size - len(chunk)))
Pad(c) ==
    IF FrameLen(c) < chunk_size
    THEN [c EXCEPT !.zeros = chunk_size - FrameLen(c)]
    ELSE c

\* no chunk is held
NoChunk == [lo |-> 0, hi |-> 0, zeros |-> 0]

\* score >= self.wake_threshold
AboveThreshold(s) == s >= wake_threshold

\* mutant of CooldownElapsed: the cooldown is not applied
CooldownIgnored(t, last, cd) == TRUE

\* current_time - self.last_detection >= self.cooldown
CooldownElapsed(t, last, cd) == t - last >= cd

\* mutant of Classify: every text is a command
ClassifyCommand(awake) == "command"

\* mutant of AwakeAfterCommand: the awake window is left open
AwakeKept == TRUE

\* self.is_awake = False, the value written after a command
AwakeAfterCommand == FALSE

\* if self.is_awake: command, else: monitoring
Classify(awake) == IF awake THEN "command" ELSE "monitoring"

(***************************************************************************)
(* Initial state: VoiceAssistant.__init__ has returned, start() not yet    *)
(* called.                                                                 *)
(***************************************************************************)
Scripts == {"wake_transcription_demo", "ollama_voice_assistant",
            "openwakeword_detector", "basic_audio_recorder",
            "whisper_transcriber"}

\* the scripts that score audio with the wake-word engine
WakeScripts == {"wake_transcription_demo", "openwakeword_detector"}

\* the scripts whose __main__ calls AudioRecorder.record
RecorderScripts == {"basic_audio_recorder", "whisper_transcriber"}

\* everything but the configuration
InitState ==
    /\ audio_queue = <<>>
    /\ is_processing = FALSE
    /\ p_pc = "unstarted"
    /\ p_seg = 0
    /\ is_running = FALSE
    /\ is_awake = FALSE
    /\ last_detection = 0
    /\ wake_queue = <<>>
    /\ transcription_queue = <<>>
    /\ main_pc = "init"
    /\ listening = FALSE
    /\ cap_pc = "listen"
    /\ captured = 0
    /\ w_pc = "unstarted"
    /\ w_seg = 0
    /\ w_len = 0
    /\ w_i = 0
    /\ w_m = 1
    /\ score = 0
    /\ current_time = 0
    /\ chunk = NoChunk
    /\ t_pc = "unstarted"
    /\ t_seg = 0
    /\ text = <<>>
    /\ wake_deq = <<>>
    /\ trans_deq = <<>>
    /\ last_accept = -1
    /\ seg_triggers = 0
    /\ frames_fed = 0
    /\ frame_triggers = 0
    /\ awake_seg = 0
    /\ pending = FALSE
    /\ r_pc = "unstarted"
    /\ all_audio = 0
    /\ elapsed = 0

Init ==
    /\ script \in Scripts
    /\ cooldown \in IF script \in WakeScripts THEN CooldownValues ELSE {0}
    /\ num_models = IF script \in WakeScripts THEN NumModels ELSE 0
    /\ duration_seconds \in
          IF script \in RecorderScripts THEN RecordDurations ELSE {0}
    /\ InitState

\* the same scripts with a wake-word engine that holds several models, so
\* that a prediction has several items, under every cooldown from 0 on
InitMultiModel ==
    /\ script \in Scripts
    /\ cooldown \in IF script \in WakeScripts THEN 0..DefaultCooldown ELSE {0}
    /\ num_models \in
          IF script \in WakeScripts THEN (NumModels + 1)..MaxModels ELSE {0}
    /\ duration_seconds \in
          IF script \in RecorderScripts THEN RecordDurations ELSE {0}
    /\ InitState

Demo == script = "wake_transcription_demo"

\* time.time() reads the wall clock, which may be set forward or back
ClockReadings == 0..MaxTime

(***************************************************************************)
(* Main thread: VoiceAssistant.start, VoiceAssistant.stop and __main__.    *)
(***************************************************************************)
\* is_running = True, then both worker threads are started
Start ==
    /\ Demo
    /\ main_pc = "init"
    /\ is_running' = TRUE
    /\ w_pc' = "loop"
    /\ t_pc' = "loop"
    /\ main_pc' = "calibrate"
    /\ UNCHANGED <<config, recv,
                   ollamav, is_awake, last_detection, queues, listening,
                   capv, w_seg, w_len, w_i, w_m, score, current_time, chunk,
                   t_seg, text, wakeh, transh, pending>>

\* adjust_for_ambient_noise, then listen_in_background
ListenInBackground ==
    /\ Demo
    /\ main_pc = "calibrate"
    /\ listening' = TRUE
    /\ main_pc' = "running"
    /\ UNCHANGED <<config, recv,
                   ollamav, shared, queues, capv, wakev, transv, wakeh,
                   transh, pending>>

\* KeyboardInterrupt before the try block of start(): no join, __main__'s
\* finally calls assistant.stop()
InterruptBeforeListening ==
    /\ Demo
    /\ main_pc = "calibrate"
    /\ is_running' = FALSE
    /\ main_pc' = "exited"
    /\ UNCHANGED <<config, recv,
                   ollamav, is_awake, last_detection, queues,
                   listening, capv, wakev, transv, wakeh, transh, pending>>

\* KeyboardInterrupt in the wait loop; finally: stop_listening(wait_for_stop=False)
KeyboardInterrupt ==
    /\ Demo
    /\ main_pc = "running"
    /\ listening' = FALSE
    /\ main_pc' = "join"
    /\ UNCHANGED <<config, recv,
                   ollamav, shared, queues, capv, wakev, transv, wakeh,
                   transh, pending>>

\* wake_thread.join(timeout=2) and transcription_thread.join(timeout=2): each
\* returns when its thread has ended and, if it has not, when the timeout has
\* passed; start() returns and __main__'s finally calls assistant.stop()
JoinAndStop ==
    /\ Demo
    /\ main_pc = "join"
    /\ is_running' = FALSE
    /\ main_pc' = "exited"
    /\ UNCHANGED <<config, recv,
                   ollamav, is_awake, last_detection, queues, listening,
                   capv, wakev, transv, wakeh, transh, pending>>

(***************************************************************************)
(* Capture thread: VoiceAssistant.audio_callback, called once per phrase   *)
(* by the background listener.                                             *)
(***************************************************************************)
\* self.wake_queue.put(audio_data)
CapturePutWake ==
    /\ Demo
    /\ listening
    /\ cap_pc = "listen"
    /\ captured < MaxSegs
    /\ ~Full(wake_queue)
    /\ captured' = captured + 1
    /\ wake_queue' = Put(wake_queue, captured + 1)
    /\ cap_pc' = "put_trans"
    /\ UNCHANGED <<config, recv,
                   ollamav, shared, transcription_queue, mainv, wakev,
                   transv, wakeh, transh, pending>>

\* self.transcription_queue.put(audio_data)
CapturePutTrans ==
    /\ Demo
    /\ cap_pc = "put_trans"
    /\ ~Full(transcription_queue)
    /\ transcription_queue' = Put(transcription_queue, captured)
    /\ cap_pc' = "listen"
    /\ UNCHANGED <<config, recv,
                   ollamav, shared, wake_queue, mainv, captured, wakev,
                   transv, wakeh, transh, pending>>

(***************************************************************************)
(* Wake-word worker: VoiceAssistant.wake_word_worker.  A local that is     *)
(* dead (always assigned again before it is read) is put back to its       *)
(* initial value.                                                          *)
(***************************************************************************)
\* mutant of W_Loop: the flag is not looked at
W_LoopForever ==
    /\ Demo
    /\ w_pc = "loop"
    /\ w_pc' = "poll"
    /\ UNCHANGED <<config, recv,
                   ollamav, shared, queues, mainv, capv, w_seg, w_len,
                   w_i, w_m, score, current_time, chunk, transv, wakeh,
                   transh, pending>>

\* while self.is_running
W_Loop ==
    /\ Demo
    /\ w_pc = "loop"
    /\ w_pc' = IF is_running THEN "poll" ELSE "done"
    /\ UNCHANGED <<config, recv,
                   ollamav, shared, queues, mainv, capv, w_seg, w_len,
                   w_i, w_m, score, current_time, chunk, transv, wakeh,
                   transh, pending>>

\* mutant of W_Poll: a get() that waits for a segment
W_PollBlocking ==
    /\ Demo
    /\ w_pc = "poll"
    /\ wake_queue # <<>>
    /\ wake_queue' = Tail(wake_queue)
    /\ w_seg' = Head(wake_queue)
    /\ wake_deq' = Append(wake_deq, Head(wake_queue))
    /\ \E n \in SegLens :
         /\ w_len' = n
         /\ w_pc' = IF 0 \in ChunkOffsets(n) THEN "score" ELSE "loop"
    /\ UNCHANGED <<config, recv,
                   ollamav, shared, transcription_queue, mainv, capv,
                   w_i, w_m, score, current_time, chunk, transv, last_accept,
                   seg_triggers, frames_fed, frame_triggers, awake_seg,
                   transh, pending>>

\* if not self.wake_queue.empty(): get() and np.frombuffer; else sleep
W_Poll ==
    /\ Demo
    /\ w_pc = "poll"
    /\ IF wake_queue # <<>>
       THEN /\ wake_queue' = Tail(wake_queue)
            /\ w_seg' = Head(wake_queue)
            /\ wake_deq' = Append(wake_deq, Head(wake_queue))
            /\ \E n \in SegLens :
                 /\ w_len' = n
                 /\ w_pc' = IF 0 \in ChunkOffsets(n) THEN "score" ELSE "loop"
       ELSE /\ w_pc' = "loop"
            /\ UNCHANGED <<wake_queue, w_seg, wake_deq, w_len>>
    /\ UNCHANGED <<config, recv,
                   ollamav, shared, transcription_queue, mainv, capv,
                   w_i, w_m, score, current_time, chunk, transv, last_accept,
                   seg_triggers, frames_fed, frame_triggers, awake_seg,
                   transh, pending>>

\* the chunk loop moves to the next offset, or the segment is finished
NextChunk ==
    IF w_i + chunk_size \in ChunkOffsets(w_len)
    THEN w_pc' = "score" /\ w_i' = w_i + chunk_size /\ w_m' = 1
                         /\ w_len' = w_len /\ seg_triggers' = seg_triggers
                         /\ frames_fed' = frames_fed
                         /\ frame_triggers' = 0
    ELSE w_pc' = "loop" /\ w_i' = 0 /\ w_m' = 1 /\ w_len' = 0
                        /\ seg_triggers' = 0 /\ frames_fed' = 0
                        /\ frame_triggers' = 0

\* the items loop moves to the next model, or the chunk is finished
NextItem ==
    IF w_m < num_models
    THEN w_pc' = "score" /\ w_i' = w_i /\ w_m' = w_m + 1 /\ w_len' = w_len
                         /\ seg_triggers' = seg_triggers
                         /\ frames_fed' = frames_fed
                         /\ frame_triggers' = frame_triggers
    ELSE NextChunk

\* self.wake_model.predict(chunk) raises: nothing in the worker catches it
W_PredictRaises ==
    /\ Demo
    /\ w_pc = "score"
    /\ w_m = 1
    /\ w_pc' = "crashed"
    /\ UNCHANGED <<config, recv,
                   ollamav, shared, queues, mainv, capv, w_seg, w_len,
                   w_i, w_m, score, current_time, chunk, transv, wakeh,
                   transh, pending>>

\* chunk = audio_np[i:i + self.chunk_size], padded; prediction =
\* self.wake_model.predict(chunk) -- once per chunk, before the first item
Predict ==
    IF w_m = 1
    THEN /\ chunk' = Pad(Slice(w_len, w_i))
         /\ frames_fed' = frames_fed + 1
    ELSE UNCHANGED <<chunk, frames_fed>>

\* for wake_word, score in prediction.items(): current_time = time.time()
\* (the reading is dead, and dropped, when the score is below the threshold)
W_Score ==
    /\ Demo
    /\ w_pc = "score"
    /\ Predict
    /\ \E sc \in Scores, t \in ClockReadings :
         /\ score' = sc
         /\ current_time' = IF AboveThreshold(sc) THEN t ELSE 0
    /\ w_pc' = "test"
    /\ UNCHANGED <<config, recv,
                   ollamav, shared, queues, mainv, capv, w_seg, w_len, w_i,
                   w_m, transv, wake_deq, last_accept, seg_triggers,
                   frame_triggers, awake_seg, transh, pending>>

\* if score >= self.wake_threshold:
\*     if current_time - self.last_detection >= self.cooldown:
Accepts(sc, t, last, cd) == AboveThreshold(sc) /\ CooldownElapsed(t, last, cd)

W_Test ==
    /\ Demo
    /\ w_pc = "test"
    /\ IF Accepts(score, current_time, last_detection, cooldown)
       THEN /\ w_pc' = "play"
            /\ UNCHANGED <<w_len, w_i, w_m, score, current_time,
                           seg_triggers, frames_fed, frame_triggers>>
       ELSE /\ NextItem
            /\ score' = 0
            /\ current_time' = 0
    /\ chunk' = NoChunk
    /\ UNCHANGED <<config, recv,
                   ollamav, shared, queues, mainv, capv, w_seg, transv,
                   wake_deq, last_accept, awake_seg, transh,
                   pending>>

\* play_sound: sf.read, sd.play or sd.wait raises: control goes to
\* except Exception as e, inside play_sound
W_PlayRaises ==
    /\ Demo
    /\ w_pc = "play"
    /\ w_pc' = "play_except"
    /\ UNCHANGED <<config, recv,
                   ollamav, shared, queues, mainv, capv, w_seg, w_len,
                   w_i, w_m, score, current_time, chunk, transv, wakeh,
                   transh, pending>>

\* mutant of W_PlayExcept: the playback error reaches the worker
W_PlayExceptEndsWorker ==
    /\ Demo
    /\ w_pc = "play_except"
    /\ w_pc' = "crashed"
    /\ UNCHANGED <<config, recv,
                   ollamav, shared, queues, mainv, capv, w_seg, w_len,
                   w_i, w_m, score, current_time, chunk, transv, wakeh,
                   transh, pending>>

\* print(f"Sound error: {e}"); play_sound returns
W_PlayExcept ==
    /\ Demo
    /\ w_pc = "play_except"
    /\ w_pc' = "set_awake"
    /\ UNCHANGED <<config, recv,
                   ollamav, shared, queues, mainv, capv, w_seg, w_len,
                   w_i, w_m, score, current_time, chunk, transv, wakeh,
                   transh, pending>>

\* mutant of W_Play: is_awake is set while the sound is playing
W_PlaySetsAwake ==
    /\ Demo
    /\ w_pc = "play"
    /\ is_awake' = TRUE
    /\ w_pc' = "set_awake"
    /\ UNCHANGED <<config, recv,
                   ollamav, is_running, last_detection, queues, mainv, capv,
                   w_seg, w_len, w_i, w_m, score, current_time, chunk,
                   transv, wakeh, transh, pending>>

\* self.play_sound() plays the sound and returns
W_Play ==
    /\ Demo
    /\ w_pc = "play"
    /\ w_pc' = "set_awake"
    /\ UNCHANGED <<config, recv,
                   ollamav, shared, queues, mainv, capv, w_seg, w_len,
                   w_i, w_m, score, current_time, chunk, transv, wakeh,
                   transh, pending>>

\* self.is_awake = True; self.last_detection = current_time; break (the
\* break leaves the items loop only: the chunk loop goes on)
W_SetAwake ==
    /\ Demo
    /\ w_pc = "set_awake"
    /\ is_awake' = TRUE
    /\ last_detection' = current_time
    /\ awake_seg' = w_seg
    /\ pending' = TRUE
    /\ last_accept' = current_time
    /\ IF w_i + chunk_size \in ChunkOffsets(w_len)
       THEN /\ w_pc' = "score"
            /\ w_i' = w_i + chunk_size
            /\ w_len' = w_len
            /\ seg_triggers' = seg_triggers + 1
            /\ frames_fed' = frames_fed
       ELSE /\ w_pc' = "loop"
            /\ w_i' = 0
            /\ w_len' = 0
            /\ seg_triggers' = 0
            /\ frames_fed' = 0
    /\ w_m' = 1
    /\ frame_triggers' = 0
    /\ score' = 0
    /\ current_time' = 0
    /\ UNCHANGED <<config, recv,
                   ollamav, is_running, queues, mainv, capv, w_seg,
                   chunk, transv, wake_deq, transh>>

(***************************************************************************)
(* Transcription worker: VoiceAssistant.transcription_worker.              *)
(***************************************************************************)
\* while self.is_running
T_Loop ==
    /\ Demo
    /\ t_pc = "loop"
    /\ t_pc' = IF is_running THEN "poll" ELSE "done"
    /\ UNCHANGED <<config, recv,
                   ollamav, shared, queues, mainv, capv, wakev, t_seg,
                   text, wakeh, transh, pending>>

\* if not self.transcription_queue.empty(): get(); else sleep
T_Poll ==
    /\ Demo
    /\ t_pc = "poll"
    /\ IF transcription_queue # <<>>
       THEN /\ transcription_queue' = Tail(transcription_queue)
            /\ t_seg' = Head(transcription_queue)
            /\ trans_deq' = Append(trans_deq, Head(transcription_queue))
            /\ t_pc' = "transcribe"
       ELSE /\ t_pc' = "loop"
            /\ UNCHANGED <<transcription_queue, t_seg, trans_deq>>
    /\ UNCHANGED <<config, recv,
                   ollamav, shared, wake_queue, mainv, capv, wakev, text,
                   wakeh, pending>>

\* self.transcribe_audio raises: control goes to except Exception as e
T_TranscribeRaises ==
    /\ Demo
    /\ t_pc = "transcribe"
    /\ t_pc' = "except"
    /\ UNCHANGED <<config, recv,
                   ollamav, shared, queues, mainv, capv, wakev, t_seg,
                   text, wakeh, transh, pending>>

\* mutant of T_Except: the handler lets the exception end the thread
T_ExceptEndsWorker ==
    /\ Demo
    /\ t_pc = "except"
    /\ t_pc' = "crashed"
    /\ UNCHANGED <<config, recv,
                   ollamav, shared, queues, mainv, capv, wakev, t_seg,
                   text, wakeh, transh, pending>>

\* print(f"[Transcription] Error: {e}"); the while loop goes on
T_Except ==
    /\ Demo
    /\ t_pc = "except"
    /\ t_pc' = "loop"
    /\ UNCHANGED <<config, recv,
                   ollamav, shared, queues, mainv, capv, wakev, t_seg,
                   text, wakeh, transh, pending>>

\* text = self.transcribe_audio(audio_data)
T_Transcribe ==
    /\ Demo
    /\ t_pc = "transcribe"
    /\ \E tx \in Texts : text' = tx
    /\ t_pc' = "check"
    /\ UNCHANGED <<config, recv,
                   ollamav, shared, queues, mainv, capv, wakev, t_seg,
                   wakeh, transh, pending>>

\* if text.strip(): if self.is_awake: (command) else: (monitoring)
T_Check ==
    /\ Demo
    /\ t_pc = "check"
    /\ IF Strip(text) = <<>>
       THEN /\ t_pc' = "loop"
            /\ text' = <<>>
            /\ UNCHANGED pending
       ELSE IF Classify(is_awake) = "command"
            THEN /\ t_pc' = "command"
                 /\ pending' = FALSE
                 /\ UNCHANGED text
            ELSE /\ t_pc' = "monitoring"
                 /\ UNCHANGED <<text, pending>>
    /\ UNCHANGED <<config, recv,
                   ollamav, shared, queues, mainv, capv, wakev, t_seg,
                   wakeh, transh>>

\* mutant of T_Monitoring: the monitoring branch closes the window too
T_MonitoringResets ==
    /\ Demo
    /\ t_pc = "monitoring"
    /\ is_awake' = FALSE
    /\ t_pc' = "loop"
    /\ text' = <<>>
    /\ UNCHANGED <<config, recv,
                   ollamav, is_running, last_detection, queues, mainv,
                   capv, wakev, t_seg, wakeh, transh, pending>>

\* print(f"[Monitoring] {text}")
T_Monitoring ==
    /\ Demo
    /\ t_pc = "monitoring"
    /\ t_pc' = "loop"
    /\ text' = <<>>
    /\ UNCHANGED <<config, recv,
                   ollamav, shared, queues, mainv, capv, wakev, t_seg,
                   wakeh, transh, pending>>

\* print(f"[Command] {text}"); self.is_awake = False
T_Reset ==
    /\ Demo
    /\ t_pc = "command"
    /\ is_awake' = AwakeAfterCommand
    /\ t_pc' = "loop"
    /\ text' = <<>>
    /\ UNCHANGED <<config, recv,
                   ollamav, is_running, last_detection, queues, mainv,
                   capv, wakev, t_seg, wakeh, transh, pending>>

(***************************************************************************)
(* ollama_voice_assistant.py: VoiceAssistant.start, _audio_callback,       *)
(* process_audio and stop.  process_audio runs in the main thread; the     *)
(* callback runs in the listener's thread.  The text holds "w" where the   *)
(* wake pattern matches.                                                   *)
(***************************************************************************)
Ollama == script = "ollama_voice_assistant"

\* self.wake_pattern.search(text) is not None
check_wake_word(s) == \E k \in 1..Len(s) : s[k] \in WakePhrases

\* start(): is_running = True, listen_in_background; then process_audio()
OllamaStart ==
    /\ Ollama
    /\ main_pc = "init"
    /\ is_running' = TRUE
    /\ listening' = TRUE
    /\ main_pc' = "running"
    /\ p_pc' = "loop"
    /\ UNCHANGED <<config, recv,
                   is_awake, capv, text, demov, audio_queue,
                   is_processing, p_seg>>

\* _audio_callback: if not self.is_processing
OllamaCallback ==
    /\ Ollama
    /\ listening
    /\ cap_pc = "listen"
    /\ captured < MaxPhrases
    /\ captured' = captured + 1
    /\ cap_pc' = IF is_processing THEN "listen" ELSE "put"
    /\ UNCHANGED <<config, recv,
                   is_running, is_awake, main_pc, listening, text,
                   demov, ollamav>>

\* _audio_callback: self.audio_queue.put(audio.get_raw_data())
OllamaCallbackPut ==
    /\ Ollama
    /\ cap_pc = "put"
    /\ ~Full(audio_queue)
    /\ audio_queue' = Put(audio_queue, captured)
    /\ cap_pc' = "listen"
    /\ UNCHANGED <<config, recv,
                   is_running, is_awake, main_pc, listening,
                   captured, text, demov, is_processing, p_pc, p_seg>>

\* while self.is_running
P_Loop ==
    /\ Ollama
    /\ p_pc = "loop"
    /\ p_pc' = IF is_running THEN "poll" ELSE "done"
    /\ UNCHANGED <<config, recv,
                   is_running, is_awake, mainv, capv, text, demov,
                   audio_queue, is_processing, p_seg>>

\* if not self.audio_queue.empty() and not self.is_processing: get(); else sleep
P_Poll ==
    /\ Ollama
    /\ p_pc = "poll"
    /\ IF audio_queue # <<>> /\ ~is_processing
       THEN /\ audio_queue' = Tail(audio_queue)
            /\ p_seg' = Head(audio_queue)
            /\ p_pc' = "transcribe"
       ELSE /\ p_pc' = "loop"
            /\ UNCHANGED <<audio_queue, p_seg>>
    /\ UNCHANGED <<config, recv,
                   is_running, is_awake, mainv, capv, text, demov,
                   is_processing>>

\* self.transcribe raises an Exception inside the try block
P_TranscribeRaises ==
    /\ Ollama
    /\ p_pc = "transcribe"
    /\ p_pc' = "except"
    /\ UNCHANGED <<config, recv,
                   is_running, is_awake, mainv, capv, text, demov,
                   audio_queue, is_processing, p_seg>>

\* mutant of P_Except: the handler only prints
P_ExceptKeepsAwake ==
    /\ Ollama
    /\ p_pc = "except"
    /\ p_pc' = "loop"
    /\ UNCHANGED <<config, recv,
                   is_running, is_awake, mainv, capv, text, demov,
                   audio_queue, is_processing, p_seg>>

\* except Exception as e: print(f"Error: {e}"); self.is_awake = False
P_Except ==
    /\ Ollama
    /\ p_pc = "except"
    /\ is_awake' = FALSE
    /\ p_pc' = "loop"
    /\ UNCHANGED <<config, recv,
                   is_running, mainv, capv, text, demov,
                   audio_queue, is_processing, p_seg>>

\* text = self.transcribe(audio_data)
P_Transcribe ==
    /\ Ollama
    /\ p_pc = "transcribe"
    /\ \E tx \in OllamaTexts : text' = tx
    /\ p_pc' = "check"
    /\ UNCHANGED <<config, recv,
                   is_running, is_awake, mainv, capv, demov,
                   audio_queue, is_processing, p_seg>>

\* mutant of P_Check: the wake check comes before the test of is_awake
P_CheckWakeFirst ==
    /\ Ollama
    /\ p_pc = "check"
    /\ IF Strip(text) = <<>>
       THEN /\ p_pc' = "loop"
            /\ text' = <<>>
            /\ UNCHANGED is_processing
       ELSE IF check_wake_word(text)
            THEN /\ p_pc' = "play"
                 /\ text' = <<>>
                 /\ UNCHANGED is_processing
            ELSE IF ~is_awake
                 THEN /\ p_pc' = "loop"
                      /\ text' = <<>>
                      /\ UNCHANGED is_processing
                 ELSE /\ p_pc' = "ask"
                      /\ is_processing' = TRUE
                      /\ UNCHANGED text
    /\ UNCHANGED <<config, recv,
                   is_running, is_awake, mainv, capv, demov,
                   audio_queue, p_seg>>

\* if not text.strip(): continue; if not self.is_awake: [Monitoring] and the
\* wake check; else: [Command], self.is_processing = True
P_Check ==
    /\ Ollama
    /\ p_pc = "check"
    /\ IF Strip(text) = <<>>
       THEN /\ p_pc' = "loop"
            /\ text' = <<>>
            /\ UNCHANGED is_processing
       ELSE IF ~is_awake
            THEN /\ p_pc' = IF check_wake_word(text) THEN "play" ELSE "loop"
                 /\ text' = <<>>
                 /\ UNCHANGED is_processing
            ELSE /\ p_pc' = "ask"
                 /\ is_processing' = TRUE
                 /\ UNCHANGED text
    /\ UNCHANGED <<config, recv,
                   is_running, is_awake, mainv, capv, demov,
                   audio_queue, p_seg>>

\* self.play_sound() returns (a playback error is caught inside it)
P_Play ==
    /\ Ollama
    /\ p_pc = "play"
    /\ p_pc' = "set_awake"
    /\ UNCHANGED <<config, recv,
                   is_running, is_awake, mainv, capv, text, demov,
                   audio_queue, is_processing, p_seg>>

\* self.is_awake = True
P_SetAwake ==
    /\ Ollama
    /\ p_pc = "set_awake"
    /\ is_awake' = TRUE
    /\ awake_seg' = p_seg
    /\ p_pc' = "loop"
    /\ UNCHANGED <<config, recv,
                   is_running, mainv, capv, text, last_detection, queues,
                   wakev, t_pc, t_seg, wake_deq, last_accept, seg_triggers,
                   frames_fed, frame_triggers, transh, pending,
                   audio_queue, is_processing, p_seg>>

\* response = self.ask_ollama(text) returns (its errors are caught inside it);
\* self.is_processing = False; self.is_awake = False
P_Ask ==
    /\ Ollama
    /\ p_pc = "ask"
    /\ is_processing' = FALSE
    /\ is_awake' = FALSE
    /\ text' = <<>>
    /\ p_pc' = "loop"
    /\ UNCHANGED <<config, recv,
                   is_running, mainv, capv, demov, audio_queue,
                   p_seg>>

\* KeyboardInterrupt in process_audio; finally: stop() sets is_running = False
\* and calls stop_listening(wait_for_stop=False)
OllamaKeyboardInterrupt ==
    /\ Ollama
    /\ main_pc = "running"
    /\ is_running' = FALSE
    /\ listening' = FALSE
    /\ main_pc' = "exited"
    /\ p_pc' = "done"
    /\ UNCHANGED <<config, recv,
                   is_awake, capv, text, demov, audio_queue,
                   is_processing, p_seg>>

(***************************************************************************)
(* openwakeword_detector.py: OpenWakeWordDetector.start, audio_callback    *)
(* and stop.  The detection loop runs in the main thread.                  *)
(***************************************************************************)
Detector == script = "openwakeword_detector"

detv == <<is_awake, transcription_queue, wake_queue, t_pc, t_seg, text,
          trans_deq, awake_seg, pending, is_processing, p_pc,
          p_seg>>

\* start(): is_running = True, calibration, listen_in_background
DetectorStart ==
    /\ Detector
    /\ main_pc = "init"
    /\ is_running' = TRUE
    /\ listening' = TRUE
    /\ main_pc' = "running"
    /\ w_pc' = "loop"
    /\ UNCHANGED <<config, recv,
                   detv, last_detection, audio_queue, capv, w_seg,
                   w_len, w_i, w_m, score, current_time, chunk, wake_deq,
                   last_accept, seg_triggers, frames_fed, frame_triggers>>

\* audio_callback: self.audio_queue.put(audio.get_raw_data())
DetectorCallback ==
    /\ Detector
    /\ listening
    /\ captured < MaxSegs
    /\ ~Full(audio_queue)
    /\ captured' = captured + 1
    /\ audio_queue' = Put(audio_queue, captured + 1)
    /\ UNCHANGED <<config, recv,
                   detv, is_running, last_detection, mainv, cap_pc,
                   wakev, wake_deq, last_accept, seg_triggers, frames_fed,
                   frame_triggers>>

\* while self.is_running
D_Loop ==
    /\ Detector
    /\ w_pc = "loop"
    /\ w_pc' = IF is_running THEN "poll" ELSE "done"
    /\ UNCHANGED <<config, recv,
                   detv, is_running, last_detection, audio_queue,
                   mainv, capv, w_seg, w_len, w_i, w_m, score, current_time,
                   chunk, wake_deq, last_accept, seg_triggers, frames_fed,
                   frame_triggers>>

\* if not self.audio_queue.empty(): get() and np.frombuffer; else sleep
D_Poll ==
    /\ Detector
    /\ w_pc = "poll"
    /\ IF audio_queue # <<>>
       THEN /\ audio_queue' = Tail(audio_queue)
            /\ w_seg' = Head(audio_queue)
            /\ wake_deq' = Append(wake_deq, Head(audio_queue))
            /\ \E n \in SegLens :
                 /\ w_len' = n
                 /\ w_pc' = IF 0 \in ChunkOffsets(n) THEN "score" ELSE "loop"
       ELSE /\ w_pc' = "loop"
            /\ UNCHANGED <<audio_queue, w_seg, wake_deq, w_len>>
    /\ UNCHANGED <<config, recv,
                   detv, is_running, last_detection, mainv, capv,
                   w_i, w_m, score, current_time, chunk, last_accept,
                   seg_triggers, frames_fed, frame_triggers>>

\* self.model.predict(chunk) raises: start() catches KeyboardInterrupt only;
\* finally: stop_listening; __main__'s finally: detector.stop()
D_PredictRaises ==
    /\ Detector
    /\ w_pc = "score"
    /\ w_m = 1
    /\ w_pc' = "crashed"
    /\ listening' = FALSE
    /\ is_running' = FALSE
    /\ main_pc' = "exited"
    /\ UNCHANGED <<config, recv,
                   detv, last_detection, audio_queue, capv, w_seg,
                   w_len, w_i, w_m, score, current_time, chunk, wake_deq,
                   last_accept, seg_triggers, frames_fed, frame_triggers>>

\* for wake_word, score in prediction.items(): current_time = time.time()
D_Score ==
    /\ Detector
    /\ w_pc = "score"
    /\ Predict
    /\ \E sc \in Scores, t \in ClockReadings :
         /\ score' = sc
         /\ current_time' = IF AboveThreshold(sc) THEN t ELSE 0
    /\ w_pc' = "test"
    /\ UNCHANGED <<config, recv,
                   detv, is_running, last_detection, audio_queue,
                   mainv, capv, w_seg, w_len, w_i, w_m, wake_deq,
                   last_accept, seg_triggers, frame_triggers>>

\* if score >= self.threshold:
\*     if current_time - self.last_detection >= self.cooldown:
D_Test ==
    /\ Detector
    /\ w_pc = "test"
    /\ IF Accepts(score, current_time, last_detection, cooldown)
       THEN /\ w_pc' = "play"
            /\ UNCHANGED <<w_len, w_i, w_m, score, current_time,
                           seg_triggers, frames_fed, frame_triggers>>
       ELSE /\ NextItem
            /\ score' = 0
            /\ current_time' = 0
    /\ chunk' = NoChunk
    /\ UNCHANGED <<config, recv,
                   detv, is_running, last_detection, audio_queue,
                   mainv, capv, w_seg, wake_deq, last_accept>>

\* self.play_sound() returns (a playback error is caught inside it)
D_Play ==
    /\ Detector
    /\ w_pc = "play"
    /\ w_pc' = "set_last"
    /\ UNCHANGED <<config, recv,
                   detv, is_running, last_detection, audio_queue,
                   mainv, capv, w_seg, w_len, w_i, w_m, score, current_time,
                   chunk, wake_deq, last_accept, seg_triggers, frames_fed,
                   frame_triggers>>

\* self.last_detection = current_time; no break: the items loop goes on
D_SetLast ==
    /\ Detector
    /\ w_pc = "set_last"
    /\ last_detection' = current_time
    /\ last_accept' = current_time
    /\ IF w_m < num_models \/ w_i + chunk_size \in ChunkOffsets(w_len)
       THEN /\ w_pc' = "score"
            /\ w_i' = IF w_m < num_models THEN w_i ELSE w_i + chunk_size
            /\ w_m' = IF w_m < num_models THEN w_m + 1 ELSE 1
            /\ w_len' = w_len
            /\ seg_triggers' = seg_triggers + 1
            /\ frames_fed' = frames_fed
            /\ frame_triggers' =
                  IF w_m < num_models THEN frame_triggers + 1 ELSE 0
       ELSE /\ w_pc' = "loop"
            /\ w_i' = 0
            /\ w_m' = 1
            /\ w_len' = 0
            /\ seg_triggers' = 0
            /\ frames_fed' = 0
            /\ frame_triggers' = 0
    /\ score' = 0
    /\ current_time' = 0
    /\ UNCHANGED <<config, recv,
                   detv, is_running, audio_queue, mainv, capv,
                   w_seg, chunk, wake_deq>>

\* KeyboardInterrupt in the detection loop; finally: stop_listening;
\* __main__'s finally: detector.stop()
DetectorKeyboardInterrupt ==
    /\ Detector
    /\ main_pc = "running"
    /\ is_running' = FALSE
    /\ listening' = FALSE
    /\ main_pc' = "exited"
    /\ w_pc' = "done"
    /\ UNCHANGED <<config, recv,
                   detv, last_detection, audio_queue, capv, w_seg,
                   w_len, w_i, w_m, score, current_time, chunk, wake_deq,
                   last_accept, seg_triggers, frames_fed, frame_triggers>>

(***************************************************************************)
(* basic_audio_recorder.py and whisper_transcriber.py: AudioRecorder       *)
(* _audio_callback and record.  A queued item is the byte length of the    *)
(* phrase the listener delivered.                                          *)
(***************************************************************************)
Recorder == script \in RecorderScripts

notrecv == <<is_running, is_awake, last_detection, queues, cap_pc, wakev,
             transv, wakeh, transh, pending, is_processing, p_pc, p_seg>>

\* expected_bytes = self.sample_rate * 2 * duration_seconds
expected_bytes == sample_rate * 2 * duration_seconds

\* record(): calibration, listen_in_background, all_audio = b'',
\* start_time = datetime.now()
RecordStart ==
    /\ Recorder
    /\ main_pc = "init"
    /\ main_pc' = "running"
    /\ listening' = TRUE
    /\ all_audio' = 0
    /\ r_pc' = "clock"
    /\ UNCHANGED <<config, notrecv, audio_queue, captured, elapsed>>

\* _audio_callback: self.audio_queue.put(audio.get_raw_data()); the listener
\* delivers a phrase of at most chunk_size seconds when it hears one
RecordCallback ==
    /\ Recorder
    /\ listening
    /\ captured < MaxSegs
    /\ ~Full(audio_queue)
    /\ captured' = captured + 1
    /\ \E n \in PhraseBytes : audio_queue' = Put(audio_queue, n)
    /\ UNCHANGED <<config, notrecv, recv, mainv>>

\* elapsed = (datetime.now() - start_time).total_seconds()
R_Clock ==
    /\ Recorder
    /\ r_pc = "clock"
    /\ \E e \in ElapsedReadings : e >= elapsed /\ elapsed' = e
    /\ r_pc' = "drain"
    /\ UNCHANGED <<config, notrecv, audio_queue, captured, mainv, all_audio>>

\* while not self.audio_queue.empty(): all_audio += self.audio_queue.get()
R_Drain ==
    /\ Recorder
    /\ r_pc = "drain"
    /\ IF audio_queue # <<>>
       THEN /\ all_audio' = all_audio + Head(audio_queue)
            /\ audio_queue' = Tail(audio_queue)
            /\ UNCHANGED r_pc
       ELSE /\ r_pc' = "check"
            /\ UNCHANGED <<all_audio, audio_queue>>
    /\ UNCHANGED <<config, notrecv, captured, mainv, elapsed>>

\* if len(all_audio) >= expected_bytes: break
\* if elapsed > duration_seconds + 3: break
\* sleep(0.05)
R_Check ==
    /\ Recorder
    /\ r_pc = "check"
    /\ r_pc' = IF all_audio >= expected_bytes THEN "finally"
               ELSE IF elapsed > duration_seconds + RecordTimeout
                    THEN "finally"
                    ELSE "clock"
    /\ UNCHANGED <<config, notrecv, audio_queue, captured, mainv, all_audio,
                   elapsed>>

\* finally: stop_listening(wait_for_stop=False); return all_audio
R_Return ==
    /\ Recorder
    /\ r_pc = "finally"
    /\ listening' = FALSE
    /\ r_pc' = "returned"
    /\ main_pc' = "exited"
    /\ UNCHANGED <<config, notrecv, audio_queue, captured, all_audio, elapsed>>

Next ==
    \/ Start
    \/ ListenInBackground
    \/ InterruptBeforeListening
    \/ KeyboardInterrupt
    \/ JoinAndStop
    \/ CapturePutWake
    \/ CapturePutTrans
    \/ W_Loop
    \/ W_Poll
    \/ W_PredictRaises
    \/ W_Score
    \/ W_Test
    \/ W_Play
    \/ W_PlayRaises
    \/ W_PlayExcept
    \/ W_SetAwake
    \/ T_Loop
    \/ T_Poll
    \/ T_TranscribeRaises
    \/ T_Except
    \/ T_Transcribe
    \/ T_Check
    \/ T_Monitoring
    \/ T_Reset
    \/ OllamaStart
    \/ OllamaCallback
    \/ OllamaCallbackPut
    \/ P_Loop
    \/ P_Poll
    \/ P_TranscribeRaises
    \/ P_Except
    \/ P_Transcribe
    \/ P_Check
    \/ P_Play
    \/ P_SetAwake
    \/ P_Ask
    \/ OllamaKeyboardInterrupt
    \/ DetectorStart
    \/ DetectorCallback
    \/ D_Loop
    \/ D_Poll
    \/ D_PredictRaises
    \/ D_Score
    \/ D_Test
    \/ D_Play
    \/ D_SetLast
    \/ DetectorKeyboardInterrupt
    \/ RecordStart
    \/ RecordCallback
    \/ R_Clock
    \/ R_Drain
    \/ R_Check
    \/ R_Return

Spec == Init /\ [][Next]_vars

\* the steps of each worker thread of wake_transcription_demo.py
WakeWorker ==
    \/ W_Loop
    \/ W_Poll
    \/ W_PredictRaises
    \/ W_Score
    \/ W_Test
    \/ W_Play
    \/ W_PlayRaises
    \/ W_PlayExcept
    \/ W_SetAwake

TranscriptionWorker ==
    \/ T_Loop
    \/ T_Poll
    \/ T_TranscribeRaises
    \/ T_Except
    \/ T_Transcribe
    \/ T_Check
    \/ T_Monitoring
    \/ T_Reset

\* a started thread that can take a step is scheduled in the end, and the
\* calls it makes (predict, play_sound, transcribe_audio) come back
FairSpec == Spec /\ WF_vars(WakeWorker) /\ WF_vars(TranscriptionWorker)

MultiModelSpec == InitMultiModel /\ [][Next]_vars

(***************************************************************************)
(* Steps of the workers, as the properties name them.                      *)
(***************************************************************************)
\* the text holds nothing but whitespace
IsBlank(s) == \A k \in 1..Len(s) : s[k] \in Whitespace

\* the transcription worker decides what the text it holds is
T_Decides == t_pc = "check" /\ t_pc' # "check"

\* the wake-word loop decides on the score it holds (and is not interrupted)
W_Decides == w_pc = "test" /\ w_pc' # "test" /\ main_pc' = main_pc

\* the wake-word loop has accepted a trigger and is carrying it out
W_Accepting == w_pc \in {"play", "play_except", "set_awake", "set_last"}

(***************************************************************************)
(* C1. A non-empty text found while is_awake is true is taken as a command *)
(* once, and the worker then writes is_awake = False; a text is taken as a *)
(* command only if is_awake was set since the previous command, so a       *)
(* further text with no new trigger in between is monitoring.              *)
(***************************************************************************)
C1_OneCommandPerWake ==
    [][/\ (T_Decides /\ ~IsBlank(text) /\ is_awake) => t_pc' = "command"
       /\ (T_Decides /\ t_pc' = "command") => pending /\ ~pending'
       /\ (T_Decides /\ ~IsBlank(text) /\ ~pending) => t_pc' = "monitoring"
       /\ (t_pc = "command" /\ t_pc' # "command")
             => t_pc' = "loop" /\ ~is_awake']_vars

\* a trigger was consumed by a command, the window is closed again, and the
\* worker holds a further non-empty text
C1_Witness ==
    /\ awake_seg > 0
    /\ ~pending
    /\ ~is_awake
    /\ t_pc = "check"
    /\ ~IsBlank(text)

(***************************************************************************)
(* C2. A non-empty text found while is_awake is false goes to the          *)
(* monitoring branch, never to the command branch, and the transcription   *)
(* worker writes neither is_awake nor last_detection for it.               *)
(***************************************************************************)
C2_IdleIsMonitoring ==
    [][(T_Decides /\ ~IsBlank(text) /\ ~is_awake)
          => /\ t_pc' = "monitoring"
             /\ UNCHANGED <<is_awake, last_detection, pending>>]_vars
       /\ [][(t_pc = "monitoring" /\ t_pc' # "monitoring")
                => /\ t_pc' = "loop"
                   /\ UNCHANGED <<is_awake, last_detection, pending>>]_vars

\* a non-empty text was found while idle and is being reported
C2_Witness == t_pc = "monitoring" /\ ~is_awake /\ ~IsBlank(text)

(***************************************************************************)
(* C3. An accepted trigger's timestamp is at least the cooldown after the  *)
(* timestamp of the accepted trigger before it; a score >= threshold       *)
(* inside the cooldown window is dropped: nothing is played or written,    *)
(* the item is not put back on the queue and the worker moves past it.     *)
(***************************************************************************)
C3_CooldownDebounce ==
    /\ [](W_Accepting /\ last_accept >= 0
             => current_time - last_accept >= cooldown)
    /\ [][(/\ W_Decides
           /\ AboveThreshold(score)
           /\ last_accept >= 0
           /\ current_time - last_accept < cooldown)
             => /\ w_pc' \in {"score", "loop"}
                /\ w_pc' = "score" => <<w_i', w_m'>> # <<w_i, w_m>>
                /\ UNCHANGED <<is_awake, last_detection, last_accept,
                               wake_queue, audio_queue, wake_deq>>]_vars

\* a second trigger is accepted under a cooldown that is not zero
C3_Witness == W_Accepting /\ last_accept >= 0 /\ cooldown > 0

(***************************************************************************)
(* C4. A segment classified as a command was captured strictly after the   *)
(* segment in which the trigger that opened the awake window was detected. *)
(***************************************************************************)
C4_CommandAfterWakeSegment ==
    [][(T_Decides /\ t_pc' = "command") => t_seg > awake_seg]_vars

(***************************************************************************)
(* C5. Once the wake-word worker has set is_awake, it stays true until the *)
(* transcription worker reads it for a command: no reset of an earlier     *)
(* command erases a later trigger.                                         *)
(***************************************************************************)
C5_NoTriggerErased == pending => is_awake

(***************************************************************************)
(* C6. One segment causes at most one trigger: when a trigger is accepted  *)
(* in a chunk of a segment, no earlier chunk of that segment had one.      *)
(***************************************************************************)
C6_OneTriggerPerSegment == W_Accepting => seg_triggers = 0

(***************************************************************************)
(* C7. A score is accepted exactly when it is >= threshold and either no   *)
(* trigger was accepted before it or the latest accepted one is at least   *)
(* the cooldown old: the first qualifying score is accepted at any clock   *)
(* value.                                                                  *)
(***************************************************************************)
C7_AcceptedIffQualifies ==
    [][W_Decides =>
          ((w_pc' = "play") <=>
              /\ AboveThreshold(score)
              /\ \/ last_accept = -1
                 \/ current_time - last_accept >= cooldown)]_vars

(***************************************************************************)
(* C8. An empty or whitespace-only text is a no-op in both scripts: the    *)
(* worker that holds it goes back to the top of its loop, writes none of   *)
(* is_awake, last_detection, is_processing, plays no sound and takes no    *)
(* command branch, whether is_awake is true or false.                      *)
(***************************************************************************)
\* process_audio decides what the text it holds is (and is not interrupted)
P_Decides == p_pc = "check" /\ p_pc' # "check" /\ main_pc' = main_pc

C8_BlankTextIsNoOp ==
    [][/\ (T_Decides /\ IsBlank(text))
             => /\ t_pc' = "loop"
                /\ UNCHANGED <<is_awake, last_detection, is_running,
                               pending, w_pc, queues>>
       /\ (P_Decides /\ IsBlank(text))
             => /\ p_pc' = "loop"
                /\ UNCHANGED <<is_awake, is_processing, is_running,
                               audio_queue>>]_vars

\* a whitespace-only text is held while the session is awake
C8_Witness ==
    /\ is_awake
    /\ text = <<" ">>
    /\ \/ Demo /\ t_pc = "check"
       \/ Ollama /\ p_pc = "check"

(***************************************************************************)
(* C9. Every captured segment is put once into each queue, wake_queue      *)
(* first: what a worker has got followed by what its queue holds is the    *)
(* captured sequence, in capture order, for both workers.                  *)
(***************************************************************************)
Captured(n) == [k \in 1..n |-> k]

C9_FanOutInOrder ==
    Demo =>
       /\ wake_deq \o wake_queue = Captured(captured)
       /\ trans_deq \o transcription_queue =
             Captured(IF cap_pc = "put_trans" THEN captured - 1 ELSE captured)

C9_Witness == Len(wake_deq) >= 2 /\ Len(trans_deq) >= 2

(***************************************************************************)
(* C10. The capture callback never waits for a worker: whenever it is at a *)
(* put, the put can be taken, whatever the workers do and however long the *)
(* queues are.                                                             *)
(***************************************************************************)
C10_CaptureNeverBlocks ==
    /\ (Demo /\ listening /\ cap_pc = "listen" /\ captured < MaxSegs)
          => ENABLED CapturePutWake
    /\ (Demo /\ cap_pc = "put_trans") => ENABLED CapturePutTrans

\* the callback is between its two puts while one worker is in play_sound,
\* the other in transcribe_audio, and a segment already waits in wake_queue
C10_Witness ==
    /\ cap_pc = "put_trans"
    /\ w_pc = "play"
    /\ t_pc = "transcribe"
    /\ Len(wake_queue) >= 1

(***************************************************************************)
(* C11. A segment of n samples is fed to the scorer in exactly ceil(n/F)   *)
(* frames, F = chunk_size, none when n = 0: frame k is the samples k*F up  *)
(* to (k+1)*F, clipped at n, every frame handed to predict has exactly F   *)
(* samples, and a short last frame is its samples followed by zeros: of a  *)
(* segment of 2000 samples frame 0 is samples[0:1280] and frame 1 is       *)
(* samples[1280:2000] followed by 560 zeros.                               *)
(***************************************************************************)
CeilDiv(n, f) == (n + f - 1) \div f

\* the wake-word loop leaves a segment whose chunks it has all visited
SegmentDone ==
    /\ w_pc \in {"test", "set_awake", "set_last"}
    /\ w_pc' = "loop"
    /\ main_pc' = main_pc

C11_FramesOfSegment ==
    /\ []((w_pc = "test" /\ w_m = 1) =>
             /\ chunk.lo = (frames_fed - 1) * chunk_size
             /\ chunk.hi = Min(frames_fed * chunk_size, w_len)
             /\ chunk.hi > chunk.lo
             /\ chunk.zeros = chunk_size - (chunk.hi - chunk.lo)
             /\ FrameLen(chunk) = chunk_size
             /\ (w_len = 2000 /\ frames_fed = 1)
                   => chunk = [lo |-> 0, hi |-> 1280, zeros |-> 0]
             /\ (w_len = 2000 /\ frames_fed = 2)
                   => chunk = [lo |-> 1280, hi |-> 2000, zeros |-> 560])
    /\ [][/\ SegmentDone => frames_fed = CeilDiv(w_len, chunk_size)
          /\ (w_pc = "poll" /\ wake_deq' # wake_deq /\ main_pc' = main_pc)
                => /\ frames_fed' = 0
                   /\ (w_pc' = "loop") <=> (w_len' = 0)
                   /\ (w_pc' = "score") <=> (w_len' > 0)]_vars

\* C11 as the claim words its scenario: frame 1 of a segment of 2000 samples
\* is samples[1280:2000] followed by 720 zeros
C11_PaddedWith720Zeros ==
    (w_pc = "test" /\ w_m = 1 /\ w_len = 2000 /\ frames_fed = 2)
       => chunk = [lo |-> 1280, hi |-> 2000, zeros |-> 720]

\* the second frame of a segment of 2000 samples is with the scorer
C11_Witness ==
    /\ w_pc = "test"
    /\ w_len = 2000
    /\ frames_fed = 2
    /\ w_i = chunk_size
    /\ FrameLen(chunk) = chunk_size

(***************************************************************************)
(* C12. A predict that raises on one frame is caught and the wake-word     *)
(* loop goes on with the next item: the failure never ends the loop, so    *)
(* the loop is never left through an exception.                            *)
(***************************************************************************)
C12_ScoringFailureCaught ==
    w_pc # "crashed"

(***************************************************************************)
(* C13. A transcribe_audio that raises on one segment is caught inside the *)
(* transcription worker: the worker reports it and goes back to the top of *)
(* its loop, it is never ended by the failure, and the failure changes     *)
(* nothing the wake-word worker or the capture callback reads, so what     *)
(* they can do next is what they could do before.                          *)
(***************************************************************************)
\* what the wake-word worker and the capture callback read and write
OutsideTranscription ==
    <<is_running, is_awake, last_detection, queues, listening, capv, wakev,
      wakeh, pending>>

C13_TranscriptionFailureCaught ==
    /\ [](t_pc # "crashed")
    /\ [](t_pc = "except" =>
             /\ ENABLED T_Except
             /\ w_pc = "poll" => ENABLED W_Poll
             /\ w_pc = "score" => ENABLED W_Score
             /\ (listening /\ cap_pc = "listen" /\ captured < MaxSegs)
                   => ENABLED CapturePutWake
             /\ cap_pc = "put_trans" => ENABLED CapturePutTrans)
    /\ [][/\ (t_pc = "transcribe" /\ t_pc' \notin {"transcribe", "check"})
                => /\ t_pc' = "except"
                   /\ UNCHANGED OutsideTranscription
          /\ (t_pc = "except" /\ t_pc' # "except")
                => /\ t_pc' = "loop"
                   /\ UNCHANGED OutsideTranscription]_vars

\* a transcription has failed while a further segment waits in the queue
\* and the wake-word worker is in the middle of a segment
C13_Witness ==
    /\ t_pc = "except"
    /\ transcription_queue # <<>>
    /\ w_pc = "test"

(***************************************************************************)
(* C14. A playback failure stays inside play_sound: when the sound of an   *)
(* accepted trigger cannot be played, the wake-word worker is not ended,   *)
(* it goes on to the writes of that trigger -- is_awake becomes true and   *)
(* last_detection the trigger's timestamp -- and then on with its loop.    *)
(***************************************************************************)
C14_PlaybackFailureCaught ==
    /\ [](Demo /\ w_pc = "play_except" => ENABLED W_PlayExcept)
    /\ [][/\ (Demo /\ w_pc = "play" /\ w_pc' \notin {"play", "set_awake"})
                => /\ w_pc' = "play_except"
                   /\ UNCHANGED <<shared, queues, current_time, w_seg, w_i,
                                  w_len>>
          /\ (w_pc = "play_except" /\ w_pc' # "play_except")
                => /\ w_pc' = "set_awake"
                   /\ UNCHANGED <<shared, queues, current_time, w_seg, w_i,
                                  w_len>>
          /\ (w_pc = "set_awake" /\ w_pc' # "set_awake")
                => /\ is_awake'
                   /\ last_detection' = current_time
                   /\ w_pc' \in {"score", "loop"}]_vars

\* the sound of an accepted trigger has failed to play
C14_Witness == w_pc = "play_except" /\ ~is_awake /\ last_detection # current_time

(***************************************************************************)
(* C15. A score >= threshold that the wake-word worker tests while         *)
(* is_awake is true is not accepted: no sound is played for it and neither *)
(* is_awake nor last_detection is written, so is_awake is never written    *)
(* while it is already true.                                               *)
(***************************************************************************)
C15_NoTriggerWhileAwake ==
    [][/\ (Demo /\ W_Decides /\ AboveThreshold(score) /\ is_awake)
             => w_pc' # "play"
       /\ (Demo /\ w_pc = "set_awake" /\ w_pc' # "set_awake")
             => ~is_awake]_vars

(***************************************************************************)
(* C16. is_awake starts false.  Only the wake-word worker turns it true    *)
(* and it never turns it false; only the transcription worker turns it     *)
(* false, only as the last step of handling a command, and is_awake is     *)
(* true when it does so.  last_detection is written by the wake-word       *)
(* worker only and never decreases.                                        *)
(***************************************************************************)
C16_SessionStateWriters ==
    /\ [](main_pc = "init" => ~is_awake /\ last_detection = 0)
    /\ [][Demo =>
            /\ (~is_awake /\ is_awake')
                  => w_pc = "set_awake" /\ w_pc' # "set_awake"
            /\ (is_awake /\ ~is_awake')
                  => t_pc = "command" /\ t_pc' = "loop"
            /\ (w_pc' # w_pc /\ is_awake) => is_awake'
            /\ (t_pc' # t_pc /\ ~is_awake) => ~is_awake'
            /\ (t_pc = "command" /\ t_pc' # "command")
                  => is_awake /\ ~is_awake'
            /\ last_detection' # last_detection
                  => w_pc = "set_awake" /\ w_pc' # "set_awake"
            /\ last_detection' >= last_detection]_vars

\* a window was opened by the wake-word worker and closed again by a command
C16_Witness ==
    /\ Demo
    /\ awake_seg > 0
    /\ last_detection > 0
    /\ ~is_awake
    /\ ~pending
    /\ t_pc = "loop"

(***************************************************************************)
(* C17. Of the items of one prediction, exactly the first whose score is   *)
(* >= threshold with the cooldown elapsed is accepted: once a trigger has  *)
(* been accepted in a frame, no later item of that frame is accepted, so   *)
(* no second sound is played and nothing is written for it, whatever the   *)
(* cooldown is.                                                            *)
(***************************************************************************)
C17_FirstModelWins ==
    /\ [](W_Accepting => frame_triggers = 0)
    /\ [][W_Decides =>
            ((w_pc' = "play") <=>
                /\ Accepts(score, current_time, last_detection, cooldown)
                /\ frame_triggers = 0)]_vars

(***************************************************************************)
(* C18. is_running is read at the top of each worker loop.  Once it is     *)
(* false a worker ends the iteration it has begun and leaves its loop at   *)
(* the next test, in the end under fair scheduling; it begins no further   *)
(* iteration even when its queue holds segments.  An iteration begun       *)
(* before the flag fell may still get one segment after it and process it: *)
(* a get is made at the poll of an iteration only, and no iteration is     *)
(* begun after the stop, so each worker gets at most one segment then.     *)
(***************************************************************************)
\* stop() has run: is_running is false for good
Stopped == Demo /\ main_pc = "exited"

C18_StopAtLoopTop ==
    /\ [](Stopped => ~is_running)
    /\ [][/\ (Stopped /\ w_pc = "loop" /\ w_pc' # "loop") => w_pc' = "done"
          /\ (Stopped /\ t_pc = "loop" /\ t_pc' # "loop") => t_pc' = "done"
          /\ (Demo /\ w_pc' = "done") => ~is_running /\ wake_deq' = wake_deq
          /\ (Demo /\ t_pc' = "done") => ~is_running /\ trans_deq' = trans_deq
          /\ (Demo /\ w_pc = "done") => w_pc' = "done"
          /\ (Demo /\ t_pc = "done") => t_pc' = "done"
          /\ (Stopped /\ w_pc' = "poll") => w_pc = "poll"
          /\ (Stopped /\ t_pc' = "poll") => t_pc = "poll"
          /\ (Demo /\ wake_deq' # wake_deq)
                => w_pc = "poll" /\ w_pc' # "poll"
          /\ (Demo /\ trans_deq' # trans_deq)
                => t_pc = "poll" /\ t_pc' # "poll"]_vars
    /\ Stopped ~> (w_pc \in {"done", "crashed"} /\ t_pc = "done")

\* C18 as the claim words it: no segment is got from a queue once is_running
\* is false
C18_NoGetAfterStop ==
    [][Stopped => wake_deq' = wake_deq /\ trans_deq' = trans_deq]_vars

\* both workers have left their loops and each queue still holds a segment
C18_Witness ==
    /\ Stopped
    /\ w_pc = "done"
    /\ t_pc = "done"
    /\ wake_queue # <<>>
    /\ transcription_queue # <<>>

(***************************************************************************)
(* C19. Each worker gets the segments of its own queue one by one in the   *)
(* order they were captured, none twice and none skipped, and processes    *)
(* the one it got; a worker that finds its queue empty goes back to the    *)
(* top of its loop instead of waiting in get(); and while is_running stays *)
(* true every segment in a queue is got and processed by that queue's      *)
(* worker in the end, given that predict, play_sound and transcribe_audio  *)
(* come back.                                                              *)
(***************************************************************************)
Range(q) == {q[k] : k \in 1..Len(q)}

\* the worker has got segment k and is through with it
WakeProcessed(k) ==
    /\ k \in Range(wake_deq)
    /\ w_seg = k => w_pc \in {"loop", "poll", "done"}

TransProcessed(k) ==
    /\ k \in Range(trans_deq)
    /\ t_seg = k => t_pc \in {"loop", "poll", "done"}

C19_EachSegmentOnceInOrder ==
    /\ [](Demo =>
             /\ wake_deq = Captured(Len(wake_deq))
             /\ trans_deq = Captured(Len(trans_deq))
             /\ w_pc \in {"score", "test", "play", "play_except", "set_awake"}
                   => w_seg = wake_deq[Len(wake_deq)]
             /\ t_pc \in {"transcribe", "except", "check", "command",
                           "monitoring"}
                   => t_seg = trans_deq[Len(trans_deq)]
             /\ w_pc = "poll" => ENABLED W_Poll
             /\ t_pc = "poll" => ENABLED T_Poll)
    /\ [][Demo =>
            /\ (w_pc = "poll" /\ wake_queue = <<>> /\ w_pc' # "poll")
                  => w_pc' = "loop" /\ wake_deq' = wake_deq
            /\ (t_pc = "poll" /\ transcription_queue = <<>> /\ t_pc' # "poll")
                  => t_pc' = "loop" /\ trans_deq' = trans_deq]_vars
    /\ \A k \in 1..MaxSegs :
          /\ (Demo /\ k \in Range(wake_queue))
                ~> (WakeProcessed(k) \/ ~is_running \/ w_pc = "crashed")
          /\ (Demo /\ k \in Range(transcription_queue))
                ~> (TransProcessed(k) \/ ~is_running)

\* while the program runs, both workers are through with both segments,
\* each having polled its empty queue again
C19_Witness ==
    /\ Demo
    /\ is_running
    /\ WakeProcessed(MaxSegs)
    /\ TransProcessed(MaxSegs)
    /\ wake_deq = Captured(MaxSegs)
    /\ trans_deq = Captured(MaxSegs)
    /\ w_pc = "poll"
    /\ t_pc = "poll"

(***************************************************************************)
(* C20. Whenever AudioRecorder.record returns, the audio it returns holds  *)
(* at least sample_rate * 2 * duration_seconds bytes, whatever phrases the *)
(* listener delivered and whenever it delivered them.                      *)
(***************************************************************************)
C20_GuaranteedDuration == r_pc = "returned" => all_audio >= expected_bytes

(***************************************************************************)
(* C21. is_awake becomes true only after play_sound has returned: the      *)
(* write is reached only from the call of play_sound, in the wake-word     *)
(* worker and in process_audio, and nothing else sets is_awake.  So while  *)
(* the sound of a trigger accepted with is_awake false is playing,         *)
(* is_awake stays false and a non-blank text the transcription worker      *)
(* classifies is monitoring, not a command.                                *)
(***************************************************************************)
SoundPlaying == Demo /\ w_pc \in {"play", "play_except"}

C21_AwakeAfterSound ==
    [][/\ (SoundPlaying /\ ~is_awake)
             => /\ ~is_awake'
                /\ (T_Decides /\ ~IsBlank(text)) => t_pc' = "monitoring"
       /\ (~is_awake /\ is_awake')
             => \/ Demo /\ w_pc = "set_awake"
                \/ Ollama /\ p_pc = "set_awake"
       /\ (w_pc' = "set_awake" /\ w_pc # "set_awake")
             => w_pc \in {"play", "play_except"}
       /\ (p_pc' = "set_awake" /\ p_pc # "set_awake") => p_pc = "play"]_vars

\* a non-blank text is about to be classified while the sound is playing
C21_Witness ==
    /\ SoundPlaying
    /\ ~is_awake
    /\ t_pc = "check"
    /\ ~IsBlank(text)

(***************************************************************************)
(* C22. In wake_transcription_demo, is_running is already false when       *)
(* start() joins the two worker threads after an interrupt.                *)
(***************************************************************************)
C22_StoppedBeforeJoin == (Demo /\ main_pc = "join") => ~is_running

(***************************************************************************)
(* C23. In ollama_voice_assistant the command branch, which calls          *)
(* ask_ollama, is entered only with a non-blank text classified while      *)
(* is_awake is true, and that text belongs to a segment dequeued after the *)
(* segment whose text matched the wake pattern.  A non-blank text          *)
(* classified while is_awake is true always enters it, whether or not it   *)
(* matches the wake pattern; a text classified while is_awake is false     *)
(* never does.  When the call is over is_awake is false, and it becomes    *)
(* true again only through a text that matches the wake pattern while      *)
(* is_awake is false.                                                      *)
(***************************************************************************)
C23_CommandAfterWake ==
    /\ [](Ollama /\ p_pc = "ask"
            => /\ is_awake
               /\ awake_seg > 0
               /\ p_seg > awake_seg)
    /\ [][Ollama =>
          /\ (p_pc' = "ask" /\ p_pc # "ask")
                => p_pc = "check" /\ is_awake /\ ~IsBlank(text)
          /\ (P_Decides /\ is_awake /\ ~IsBlank(text)) => p_pc' = "ask"
          /\ (P_Decides /\ ~is_awake) => p_pc' # "ask"
          /\ (p_pc = "ask" /\ p_pc' # "ask" /\ main_pc' = main_pc)
                => ~is_awake' /\ p_pc' = "loop"
          /\ (p_pc' = "play" /\ p_pc # "play")
                => /\ p_pc = "check"
                   /\ ~is_awake
                   /\ check_wake_word(text)
          /\ (~is_awake /\ is_awake')
                => p_pc = "set_awake" /\ awake_seg' = p_seg]_vars

\* a command that matches the wake pattern again is about to be sent
C23_Witness ==
    /\ Ollama
    /\ p_pc = "ask"
    /\ check_wake_word(text)
    /\ awake_seg > 0

(***************************************************************************)
(* C24. In ollama_voice_assistant no segment is put on audio_queue while   *)
(* is_processing is true: the length of the queue does not grow in a step  *)
(* taken while is_processing is true.                                      *)
(***************************************************************************)
C24_NoPutWhileProcessing ==
    [][(Ollama /\ is_processing)
          => Len(audio_queue') <= Len(audio_queue)]_vars

(***************************************************************************)
(* C25. In ollama_voice_assistant an exception raised while a dequeued     *)
(* segment is processed is caught by the handler of process_audio: the     *)
(* handler sets is_awake to false whatever it was, touches nothing else,   *)
(* and leads back to the top of the loop, which goes on; ask_ollama is not *)
(* called on the way.                                                      *)
(***************************************************************************)
C25_ErrorClosesWindow ==
    /\ [](Ollama /\ p_pc = "except" => ENABLED P_Except)
    /\ [](Ollama /\ p_pc = "loop" /\ main_pc = "running" => ENABLED P_Loop)
    /\ [][Ollama =>
          /\ (/\ p_pc = "transcribe"
              /\ p_pc' \notin {"transcribe", "check"}
              /\ main_pc' = main_pc)
                => /\ p_pc' = "except"
                   /\ UNCHANGED <<is_running, is_awake, is_processing,
                                  audio_queue, listening>>
          /\ (p_pc = "except" /\ p_pc' # "except" /\ main_pc' = main_pc)
                => /\ p_pc' = "loop"
                   /\ ~is_awake'
                   /\ UNCHANGED <<is_running, is_processing, audio_queue,
                                  listening>>]_vars

\* the handler is about to close an open awake window
C25_Witness ==
    /\ Ollama
    /\ p_pc = "except"
    /\ is_awake
    /\ audio_queue # <<>>

====
